---- MODULE Spec2Model ----
(***************************************************************************)
(* Model of atom-filter-serve (src/src/main.rs): the HTTP handlers         *)
(* serve_atom_feed and serve_rss_feed, the pipelines fetch_and_filter_feed *)
(* and fetch_and_filter_feed_rss, and the cache slot                       *)
(* AppState.cached_feed : Arc<RwLock<Option<(String, Instant)>>>.          *)
(*                                                                         *)
(* Option<T> is a sequence of length at most one: None == <<>> and         *)
(* Some(x) == <<x>>.  Text is a sequence of one-character strings.         *)
(***************************************************************************)
EXTENDS Integers, Sequences, FiniteSets, TLC

\* ------------------------------------------------------------------ bounds
\* Number of request tasks that can be in flight at once (a finished task's
\* place is taken by the next request).
NumReq == 2
\* The clock runs over 0..MaxTime.
MaxTime == 2
\* AppState.cache_duration (--cache-seconds), in clock ticks.
CacheDuration == 1

Req == 1..NumReq
Time == 0..MaxTime

None == <<>>
Some(x) == <<x>>
IsSome(o) == Len(o) = 1
Unwrap(o) == o[1]

\* ------------------------------------------------------------------ text
\* char::to_lowercase on the alphabet used by the upstream feeds.
LowerChar(c) ==
  CASE c = "A" -> "a"
    [] c = "B" -> "b"
    [] OTHER -> c

\* str::to_lowercase
to_lowercase(s) == [i \in 1..Len(s) |-> LowerChar(s[i])]

\* str::contains(&pat): pat occurs in s as a contiguous substring.
contains(s, pat) ==
  \E i \in 0..(Len(s) - Len(pat)) :
    \A j \in 1..Len(pat) : s[i + j] = pat[j]

\* ------------------------------------------------------------------ config
\* AppConfig: filter_word, feed_title, feed_description.
filter_word == <<"A">>
feed_title == "Filtered Feed"
feed_description == "Feed entries containing 'A'"

\* ------------------------------------------------------------------ upstream
\* Entries of the upstream Atom feed: id, title, optional summary, optional
\* content with its optional value, links (hrefs), authors (names), updated.
Entry1 == [id |-> "e1", title |-> <<"A", "b">>, summary |-> None,
           content |-> Some([value |-> Some(<<"x">>)]), links |-> <<"l1">>,
           authors |-> <<"n1">>, updated |-> 0]
Entry2 == [id |-> "e2", title |-> <<"b">>, summary |-> Some(<<"b", "b">>),
           content |-> None, links |-> <<>>, authors |-> <<>>, updated |-> 0]
Entry3 == [id |-> "e3", title |-> <<"b">>, summary |-> Some(<<"b", "a">>),
           content |-> Some([value |-> Some(<<"y">>)]), links |-> <<"l3">>,
           authors |-> <<>>, updated |-> 0]
\* What the upstream URL can answer with a success status: a well-formed
\* feed or a body that is not Atom.
Feed1 == [id |-> "urn:feed", links |-> <<"http://up">>, authors |-> <<"au">>,
          entries |-> <<Entry1, Entry2, Entry3>>]
Bodies == { [wf |-> TRUE, feed |-> Feed1],
            [wf |-> FALSE] }

\* HTTP statuses the upstream answers with.
UpstreamStatuses == {200, 503}
is_success(code) == code >= 200 /\ code <= 299

\* Result<T>: Ok(v) or Err(e); an error e is the parts of its message.
Ok(v) == [ok |-> TRUE, v |-> v]
Err(e) == [ok |-> FALSE, e |-> e]


\* ------------------------------------------------------------------ pipeline
\* AtomFeed::read_from(content.as_bytes())?
read_from(body) == IF body.wf THEN Ok(body.feed) ELSE Err(<<"feed parse error">>)

\* The filter closure of fetch_and_filter_feed (lines 306-318) for the
\* filter word `word`: lower-cased title or lower-cased summary (empty when
\* absent) contains the lower-cased filter word.
entry_matches_on_exact_word(entry, word) ==
  LET title == to_lowercase(entry.title)
      summary == IF IsSome(entry.summary)
                 THEN to_lowercase(Unwrap(entry.summary))
                 ELSE <<>>
  IN  contains(title, word) \/ contains(summary, word)

entry_matches_on(entry, word) ==
  LET filter_word_lower == to_lowercase(word)
      title == to_lowercase(entry.title)
      summary == IF IsSome(entry.summary)
                 THEN to_lowercase(Unwrap(entry.summary))
                 ELSE <<>>
  IN  contains(title, filter_word_lower) \/ contains(summary, filter_word_lower)

\* The closure under the configured filter word.
entry_matches(entry) == entry_matches_on(entry, filter_word)

\* feed.entries().iter().filter(..).collect() (lines 307-319)
filtered_entries_on_reversed(feed, word) ==
  LET kept == SelectSeq(feed.entries, LAMBDA entry : entry_matches_on(entry, word))
  IN  [i \in 1..Len(kept) |-> kept[Len(kept) + 1 - i]]

filtered_entries_on(feed, word) ==
  SelectSeq(feed.entries, LAMBDA entry : entry_matches_on(entry, word))

filtered_entries(feed) == filtered_entries_on(feed, filter_word)

\* The filter closure of fetch_and_filter_feed_rss (lines 366-378).
rss_entry_matches_on(entry, word) ==
  LET filter_word_lower == to_lowercase(word)
      title == to_lowercase(entry.title)
      summary == IF IsSome(entry.summary)
                 THEN to_lowercase(Unwrap(entry.summary))
                 ELSE <<>>
  IN  contains(title, filter_word_lower) \/ contains(summary, filter_word_lower)

\* feed.entries().iter().filter(..).collect() (lines 367-379)
rss_filtered_entries_on(feed, word) ==
  SelectSeq(feed.entries, LAMBDA entry : rss_entry_matches_on(entry, word))

\* FeedBuilder ... .build(): the filtered Atom feed, rendered at time t.
filtered_feed(feed, entries, t) ==
  [kind |-> "atom",
   title |-> feed_title,
   id |-> feed.id,
   updated |-> t,
   authors |-> feed.authors,
   links |-> feed.links,
   subtitle |-> Some(feed_description),
   generator |-> "Atom Feed Filter",
   entries |-> entries]

\* One Atom entry as an RSS item (lines 387-429).
rss_item_content_first(entry) ==
  [title |-> Some(entry.title),
   link |-> IF Len(entry.links) > 0 THEN Some(entry.links[1]) ELSE None,
   description |->
     Some(IF IsSome(entry.content) /\ IsSome(Unwrap(entry.content).value)
          THEN Unwrap(Unwrap(entry.content).value)
          ELSE IF IsSome(entry.summary) THEN Unwrap(entry.summary)
          ELSE <<>>),
   pub_date |-> Some(entry.updated),
   guid |-> Some([value |-> entry.id, permalink |-> FALSE]),
   author |-> IF Len(entry.authors) > 0 THEN Some(entry.authors[1]) ELSE None]

rss_item(entry) ==
  [title |-> Some(entry.title),
   link |-> IF Len(entry.links) > 0 THEN Some(entry.links[1]) ELSE None,
   description |->
     Some(IF IsSome(entry.summary) THEN Unwrap(entry.summary)
          ELSE IF IsSome(entry.content) /\ IsSome(Unwrap(entry.content).value)
          THEN Unwrap(Unwrap(entry.content).value)
          ELSE <<>>),
   pub_date |-> Some(entry.updated),
   guid |-> Some([value |-> entry.id, permalink |-> FALSE]),
   author |-> IF Len(entry.authors) > 0 THEN Some(entry.authors[1]) ELSE None]

\* ChannelBuilder ... .build(): the RSS channel.
channel(feed, entries) ==
  [kind |-> "rss",
   title |-> feed_title,
   link |-> IF Len(feed.links) > 0 THEN feed.links[1] ELSE feed.id,
   description |-> feed_description,
   items |-> [i \in 1..Len(entries) |-> rss_item(entries[i])],
   generator |-> Some("Atom Feed Filter 1.0")]

\* ------------------------------------------------------------------ state
VARIABLES
  now,            \* the clock read by Instant::now(), elapsed() and Utc::now()
  cached_feed,    \* the slot: None or Some([content, timestamp])
  readers,        \* tasks holding a read guard of the RwLock
  writer,         \* the task holding the write guard, 0 when none
  lockq,          \* tasks waiting for the RwLock, in arrival order
  pc,             \* where each task is in its handler
  handler,        \* "atom", "rss" or "home": the handler the route selected
  force_refresh,  \* params.get("refresh").is_some()
  fetches,        \* upstream GETs this request has issued
  val,            \* the value the pipeline has computed so far
  seen,           \* the timestamp read under the read guard
  resp,           \* the response returned, None while in progress
  gate,           \* history: state of the request's cache when it passed the gate
  after_err,      \* history: err_since_pub when the request checked the slot
  last_pub,       \* history: the pair written by the latest publication
  last_rss,       \* history: time of the latest successful RSS response
  err_since_pub,  \* history: a forced Atom refresh failed since the latest publication
  p_in,           \* single pipeline run: the configured filter word and the upstream body
  p_out           \* single pipeline run: None, or the pipeline that ran and its result

vars == <<now, cached_feed, readers, writer, lockq, pc, handler, force_refresh,
          fetches, val, seen, resp, gate, after_err, last_pub, last_rss,
          err_since_pub, p_in, p_out>>

lock == <<readers, writer, lockq>>
hist == <<last_pub, last_rss, err_since_pub>>
oneshot == <<p_in, p_out>>

AtomPaths == {"/atom", "/feed.xml"}
RssPaths == {"/rss", "/rss.xml"}

\* timestamp.elapsed()
elapsed(timestamp) == now - timestamp

\* State of a slot value o (an Option of a record with a timestamp) as the
\* gate at lines 222-223 classifies it.
SlotState(o) ==
  IF ~IsSome(o) THEN "empty"
  ELSE IF elapsed(Unwrap(o).timestamp) < CacheDuration THEN "fresh"
  ELSE "stale"

\* AppState::new: the slot is None and the lock is free; no request yet.
ServerInit ==
  /\ now = 0
  /\ cached_feed = None
  /\ readers = {}
  /\ writer = 0
  /\ lockq = <<>>
  /\ pc = [r \in Req |-> "idle"]
  /\ handler = [r \in Req |-> "home"]
  /\ force_refresh = [r \in Req |-> FALSE]
  /\ fetches = [r \in Req |-> 0]
  /\ val = [r \in Req |-> None]
  /\ seen = [r \in Req |-> None]
  /\ resp = [r \in Req |-> None]
  /\ gate = [r \in Req |-> "unchecked"]
  /\ after_err = [r \in Req |-> FALSE]
  /\ last_pub = None
  /\ last_rss = None
  /\ err_since_pub = FALSE

\* Server mode under the configured filter word; no single pipeline run.
Init ==
  /\ ServerInit
  /\ p_in = [word |-> filter_word, body |-> [wf |-> FALSE]]
  /\ p_out = None

\* A task slot is free for the next request.
Free(r) == pc[r] \in {"idle", "done"}

\* The fields every new request starts from: handler h, refresh flag f,
\* position p, gate history g.
Begin(r, h, f, p, g) ==
  /\ handler' = [handler EXCEPT ![r] = h]
  /\ force_refresh' = [force_refresh EXCEPT ![r] = f]
  /\ fetches' = [fetches EXCEPT ![r] = 0]
  /\ val' = [val EXCEPT ![r] = None]
  /\ seen' = [seen EXCEPT ![r] = None]
  /\ gate' = [gate EXCEPT ![r] = g]
  /\ after_err' = [after_err EXCEPT ![r] = FALSE]
  /\ pc' = [pc EXCEPT ![r] = p]

\* RwLock::read(): granted at once when no writer holds the lock and nobody
\* waits; otherwise the task queues behind the earlier waiters.
ReadFree == writer = 0 /\ lockq = <<>>

\* Mutant of WriteFree: the readers are not counted.
WriteFreeIgnoringReaders == writer = 0 /\ lockq = <<>>

\* RwLock::write(): granted at once when the lock is idle and nobody waits.
WriteFree == writer = 0 /\ readers = {} /\ lockq = <<>>

\* A response.
Response(status, content_type, body) ==
  [status |-> status, content_type |-> content_type, body |-> body]

AtomType == "application/atom+xml; charset=utf-8"
RssType == "application/rss+xml; charset=utf-8"

\* GET / : serve_homepage answers from the configuration alone.
serve_homepage(r) ==
  /\ Free(r)
  /\ Begin(r, "home", FALSE, "done", "unchecked")
  /\ resp' = [resp EXCEPT ![r] = Some(Response(200, "text/html", [kind |-> "html"]))]
  /\ UNCHANGED <<oneshot, now, cached_feed, lock, hist>>

\* Mutant of serve_atom_feed: the refresh parameter is read but the cache
\* check is made all the same.
serve_atom_feed_refresh_ignored(r) ==
  /\ Free(r)
  /\ \E path \in AtomPaths, refresh \in BOOLEAN :
       IF ReadFree
       THEN /\ Begin(r, "atom", refresh, "rdheld", "unchecked")
            /\ readers' = readers \cup {r}
            /\ UNCHANGED <<writer, lockq>>
       ELSE /\ Begin(r, "atom", refresh, "rdwait", "unchecked")
            /\ lockq' = Append(lockq, r)
            /\ UNCHANGED <<readers, writer>>
  /\ resp' = [resp EXCEPT ![r] = None]
  /\ UNCHANGED <<oneshot, now, cached_feed, hist>>

\* GET /atom or /feed.xml : serve_atom_feed up to its first await.  With the
\* refresh parameter the cache check is skipped; without it the task asks for
\* the read lock.
serve_atom_feed(r) ==
  /\ Free(r)
  /\ \E path \in AtomPaths, refresh \in BOOLEAN :
       IF refresh
       THEN /\ Begin(r, "atom", TRUE, "send", SlotState(cached_feed))
            /\ UNCHANGED lock
       ELSE IF ReadFree
       THEN /\ Begin(r, "atom", FALSE, "rdheld", "unchecked")
            /\ readers' = readers \cup {r}
            /\ UNCHANGED <<writer, lockq>>
       ELSE /\ Begin(r, "atom", FALSE, "rdwait", "unchecked")
            /\ lockq' = Append(lockq, r)
            /\ UNCHANGED <<readers, writer>>
  /\ resp' = [resp EXCEPT ![r] = None]
  /\ UNCHANGED <<oneshot, now, cached_feed, hist>>

\* Mutant of serve_rss_feed: without the refresh parameter the handler goes
\* through the cache check of the shared slot.
serve_rss_feed_gated(r) ==
  /\ Free(r)
  /\ \E path \in RssPaths, refresh \in BOOLEAN :
       IF refresh
       THEN /\ Begin(r, "rss", TRUE, "send", SlotState(last_rss))
            /\ UNCHANGED lock
       ELSE IF ReadFree
       THEN /\ Begin(r, "rss", FALSE, "rdheld", "unchecked")
            /\ readers' = readers \cup {r}
            /\ UNCHANGED <<writer, lockq>>
       ELSE /\ Begin(r, "rss", FALSE, "rdwait", "unchecked")
            /\ lockq' = Append(lockq, r)
            /\ UNCHANGED <<readers, writer>>
  /\ resp' = [resp EXCEPT ![r] = None]
  /\ UNCHANGED <<oneshot, now, cached_feed, hist>>

\* GET /rss or /rss.xml : serve_rss_feed reads the refresh parameter into
\* _force_refresh and starts the pipeline.
serve_rss_feed(r) ==
  /\ Free(r)
  /\ \E path \in RssPaths, refresh \in BOOLEAN :
       Begin(r, "rss", refresh, "send", SlotState(last_rss))
  /\ resp' = [resp EXCEPT ![r] = None]
  /\ UNCHANGED <<oneshot, now, cached_feed, lock, hist>>

\* The RwLock hands the read guard to the task at the head of the queue.
ReadGranted(r) ==
  /\ pc[r] = "rdwait"
  /\ lockq # <<>> /\ Head(lockq) = r
  /\ writer = 0
  /\ lockq' = Tail(lockq)
  /\ readers' = readers \cup {r}
  /\ pc' = [pc EXCEPT ![r] = "rdheld"]
  /\ UNCHANGED <<oneshot, now, cached_feed, writer, handler, force_refresh, fetches, val,
                 seen, resp, gate, after_err, hist>>

\* Mutant of CheckCache: the age test is <= instead of <.
CheckCacheLe(r) ==
  /\ pc[r] = "rdheld"
  /\ gate' = [gate EXCEPT ![r] = SlotState(cached_feed)]
  /\ after_err' = [after_err EXCEPT ![r] = err_since_pub]
  /\ IF IsSome(cached_feed) /\ elapsed(Unwrap(cached_feed).timestamp) <= CacheDuration
     THEN /\ seen' = [seen EXCEPT ![r] = Some(Unwrap(cached_feed).timestamp)]
          /\ pc' = [pc EXCEPT ![r] = "hit"]
          /\ UNCHANGED readers
     ELSE /\ readers' = readers \ {r}
          /\ pc' = [pc EXCEPT ![r] = "send"]
          /\ UNCHANGED seen
  /\ UNCHANGED <<oneshot, now, cached_feed, writer, lockq, handler, force_refresh, fetches,
                 val, resp, hist>>

\* Mutant of CheckCache: on a miss the read guard stays alive over the fetch.
CheckCacheKeepsGuard(r) ==
  /\ pc[r] = "rdheld"
  /\ gate' = [gate EXCEPT ![r] = SlotState(cached_feed)]
  /\ after_err' = [after_err EXCEPT ![r] = err_since_pub]
  /\ IF IsSome(cached_feed) /\ elapsed(Unwrap(cached_feed).timestamp) < CacheDuration
     THEN /\ seen' = [seen EXCEPT ![r] = Some(Unwrap(cached_feed).timestamp)]
          /\ pc' = [pc EXCEPT ![r] = "hit"]
     ELSE /\ pc' = [pc EXCEPT ![r] = "send"]
          /\ UNCHANGED seen
  /\ UNCHANGED <<oneshot, now, cached_feed, lock, handler, force_refresh, fetches,
                 val, resp, hist>>

\* Mutant of CheckCache: a slot found stale is emptied.
CheckCacheEvicts(r) ==
  /\ pc[r] = "rdheld"
  /\ gate' = [gate EXCEPT ![r] = SlotState(cached_feed)]
  /\ after_err' = [after_err EXCEPT ![r] = err_since_pub]
  /\ IF IsSome(cached_feed) /\ elapsed(Unwrap(cached_feed).timestamp) < CacheDuration
     THEN /\ seen' = [seen EXCEPT ![r] = Some(Unwrap(cached_feed).timestamp)]
          /\ pc' = [pc EXCEPT ![r] = "hit"]
          /\ UNCHANGED <<readers, cached_feed>>
     ELSE /\ readers' = readers \ {r}
          /\ pc' = [pc EXCEPT ![r] = "send"]
          /\ cached_feed' = None
          /\ UNCHANGED seen
  /\ UNCHANGED <<oneshot, now, writer, lockq, handler, force_refresh, fetches,
                 val, resp, hist>>

\* Lines 222-223 under the read guard: a present slot younger than
\* cache_duration is a hit; otherwise the guard is dropped at the end of the
\* block and the pipeline starts.
CheckCache(r) ==
  /\ pc[r] = "rdheld"
  /\ gate' = [gate EXCEPT ![r] = SlotState(cached_feed)]
  /\ after_err' = [after_err EXCEPT ![r] = err_since_pub]
  /\ IF IsSome(cached_feed) /\ elapsed(Unwrap(cached_feed).timestamp) < CacheDuration
     THEN /\ seen' = [seen EXCEPT ![r] = Some(Unwrap(cached_feed).timestamp)]
          /\ pc' = [pc EXCEPT ![r] = "hit"]
          /\ UNCHANGED readers
     ELSE /\ readers' = readers \ {r}
          /\ pc' = [pc EXCEPT ![r] = "send"]
          /\ UNCHANGED seen
  /\ UNCHANGED <<oneshot, now, cached_feed, writer, lockq, handler, force_refresh, fetches,
                 val, resp, hist>>

\* Mutant of ServeCached: a hit renews the timestamp of the slot.
ServeCachedTouch(r) ==
  /\ pc[r] = "hit"
  /\ resp' = [resp EXCEPT ![r] =
               Some(Response(200, AtomType, Unwrap(cached_feed).content))]
  /\ cached_feed' = Some([Unwrap(cached_feed) EXCEPT !.timestamp = now])
  /\ readers' = readers \ {r}
  /\ seen' = [seen EXCEPT ![r] = None]
  /\ pc' = [pc EXCEPT ![r] = "done"]
  /\ UNCHANGED <<oneshot, now, writer, lockq, handler, force_refresh, fetches,
                 val, gate, after_err, hist>>

\* Lines 224-230: the hit returns 200 with a clone of the cached content and
\* drops the read guard.
ServeCached(r) ==
  /\ pc[r] = "hit"
  /\ resp' = [resp EXCEPT ![r] =
               Some(Response(200, AtomType, Unwrap(cached_feed).content))]
  /\ readers' = readers \ {r}
  /\ seen' = [seen EXCEPT ![r] = None]
  /\ pc' = [pc EXCEPT ![r] = "done"]
  /\ UNCHANGED <<oneshot, now, cached_feed, writer, lockq, handler, force_refresh, fetches,
                 val, gate, after_err, hist>>

\* Mutant of ErrArm: a failure empties the slot.
ErrArmClears(r, e) ==
  /\ resp' = [resp EXCEPT ![r] =
               Some(Response(500, "text/plain",
                             [kind |-> "error", text |-> <<"Failed to fetch feed: ", e>>]))]
  /\ pc' = [pc EXCEPT ![r] = "done"]
  /\ val' = [val EXCEPT ![r] = None]
  /\ cached_feed' = None
  /\ err_since_pub' =
       (err_since_pub \/ (handler[r] = "atom" /\ force_refresh[r] /\ IsSome(cached_feed)))
  /\ UNCHANGED <<last_pub, last_rss>>

\* Mutant of ErrArm: the error response is stored in the slot.
ErrArmCachesError(r, e) ==
  /\ resp' = [resp EXCEPT ![r] =
               Some(Response(500, "text/plain",
                             [kind |-> "error", text |-> <<"Failed to fetch feed: ", e>>]))]
  /\ pc' = [pc EXCEPT ![r] = "done"]
  /\ val' = [val EXCEPT ![r] = None]
  /\ cached_feed' =
       IF handler[r] = "atom"
       THEN Some([content |-> [kind |-> "error", text |-> <<"Failed to fetch feed: ", e>>],
                  timestamp |-> now])
       ELSE cached_feed
  /\ err_since_pub' =
       (err_since_pub \/ (handler[r] = "atom" /\ force_refresh[r] /\ IsSome(cached_feed)))
  /\ UNCHANGED <<last_pub, last_rss>>

\* Mutant of ErrArm: a failure is answered with the cached document when
\* there is one.
ErrArmServesStale(r, e) ==
  /\ resp' = [resp EXCEPT ![r] =
               IF handler[r] = "atom" /\ IsSome(cached_feed)
               THEN Some(Response(200, AtomType, Unwrap(cached_feed).content))
               ELSE Some(Response(500, "text/plain",
                                  [kind |-> "error",
                                   text |-> <<"Failed to fetch feed: ", e>>]))]
  /\ pc' = [pc EXCEPT ![r] = "done"]
  /\ val' = [val EXCEPT ![r] = None]
  /\ cached_feed' = cached_feed
  /\ err_since_pub' =
       (err_since_pub \/ (handler[r] = "atom" /\ force_refresh[r] /\ IsSome(cached_feed)))
  /\ UNCHANGED <<last_pub, last_rss>>

\* The Err arm of either handler: the pipeline returned Err(e); the request is
\* answered 500 with the error text and the slot is not touched.
ErrArm(r, e) ==
  /\ resp' = [resp EXCEPT ![r] =
               Some(Response(500, "text/plain",
                             [kind |-> "error", text |-> <<"Failed to fetch feed: ", e>>]))]
  /\ pc' = [pc EXCEPT ![r] = "done"]
  /\ val' = [val EXCEPT ![r] = None]
  /\ cached_feed' = cached_feed
  /\ err_since_pub' =
       (err_since_pub \/ (handler[r] = "atom" /\ force_refresh[r] /\ IsSome(cached_feed)))
  /\ UNCHANGED <<last_pub, last_rss>>

\* Mutant of Send: a first failed GET is tried again.
SendRetries(r) ==
  /\ pc[r] = "send"
  /\ fetches' = [fetches EXCEPT ![r] = @ + 1]
  /\ \/ /\ fetches[r] = 0
        /\ UNCHANGED <<pc, val, resp, cached_feed, hist>>
     \/ ErrArm(r, <<"transport error">>)
     \/ \E code \in UpstreamStatuses :
          IF is_success(code)
          THEN /\ pc' = [pc EXCEPT ![r] = "text"]
               /\ UNCHANGED <<val, resp, cached_feed, hist>>
          ELSE ErrArm(r, <<"HTTP error: ", code>>)
  /\ UNCHANGED <<oneshot, now, lock, handler, force_refresh, seen, gate, after_err>>

\* client.get(url).send().await? and the status check (lines 289-298 and
\* 349-358): one GET; a transport failure or a non-success status ends the
\* pipeline with an error, a success status leaves the task awaiting the body.
Send(r) ==
  /\ pc[r] = "send"
  /\ fetches' = [fetches EXCEPT ![r] = @ + 1]
  /\ \/ ErrArm(r, <<"transport error">>)
     \/ \E code \in UpstreamStatuses :
          IF is_success(code)
          THEN /\ pc' = [pc EXCEPT ![r] = "text"]
               /\ UNCHANGED <<val, resp, cached_feed, hist>>
          ELSE ErrArm(r, <<"HTTP error: ", code>>)
  /\ UNCHANGED <<oneshot, now, lock, handler, force_refresh, seen, gate, after_err>>

\* Lines 301-343 of fetch_and_filter_feed, from the body b at time t with
\* the filter word `word`: parse, filter, build, serialize.  write_to and
\* from_utf8 return a Result that the code propagates, so both outcomes are
\* possible results.
atom_results_on(b, t, word) ==
  LET parsed == read_from(b)
  IN  IF ~parsed.ok THEN {Err(parsed.e)}
      ELSE LET feed == parsed.v
               entries == filtered_entries_on(feed, word)
           IN  {Ok(filtered_feed(feed, entries, t)), Err(<<"render error">>)}

atom_results(b, t) == atom_results_on(b, t, filter_word)

\* Lines 361-443 of fetch_and_filter_feed_rss, from the body b with the
\* filter word `word`.
rss_result_on(b, word) ==
  LET parsed == read_from(b)
  IN  IF ~parsed.ok THEN Err(parsed.e)
      ELSE LET feed == parsed.v
               entries == rss_filtered_entries_on(feed, word)
           IN  Ok(channel(feed, entries))

rss_result(b) == rss_result_on(b, filter_word)

\* Mutant of TextAtom: the document is built from the parsed entries, before
\* the filter has run.
TextAtomUnfiltered(r) ==
  /\ pc[r] = "text"
  /\ handler[r] = "atom"
  /\ \/ ErrArm(r, <<"transport error">>)
     \/ \E b \in Bodies :
          LET parsed == read_from(b)
          IN  IF parsed.ok
              THEN /\ val' = [val EXCEPT ![r] =
                               Some(filtered_feed(parsed.v, parsed.v.entries, now))]
                   /\ pc' = [pc EXCEPT ![r] = "write"]
                   /\ UNCHANGED <<resp, cached_feed, hist>>
              ELSE ErrArm(r, parsed.e)
  /\ UNCHANGED <<oneshot, now, lock, handler, force_refresh, fetches, seen, gate, after_err>>

\* serve_atom_feed from the arrival of the body to the return of
\* fetch_and_filter_feed: on Ok the task goes on to the write lock, on Err it
\* answers 500.
TextAtom(r) ==
  /\ pc[r] = "text"
  /\ handler[r] = "atom"
  /\ \/ ErrArm(r, <<"transport error">>)
     \/ \E b \in Bodies : \E res \in atom_results(b, now) :
          IF res.ok
          THEN /\ val' = [val EXCEPT ![r] = Some(res.v)]
               /\ pc' = [pc EXCEPT ![r] = "write"]
               /\ UNCHANGED <<resp, cached_feed, hist>>
          ELSE ErrArm(r, res.e)
  /\ UNCHANGED <<oneshot, now, lock, handler, force_refresh, fetches, seen, gate, after_err>>

\* Mutant of TextRss: the RSS rendering is stored in the slot.
TextRssCaches(r) ==
  /\ pc[r] = "text"
  /\ handler[r] = "rss"
  /\ \/ ErrArm(r, <<"transport error">>)
     \/ \E b \in Bodies :
          LET res == rss_result(b)
          IN  IF res.ok
              THEN /\ resp' = [resp EXCEPT ![r] = Some(Response(200, RssType, res.v))]
                   /\ pc' = [pc EXCEPT ![r] = "done"]
                   /\ last_rss' = Some([timestamp |-> now])
                   /\ cached_feed' = Some([content |-> res.v, timestamp |-> now])
                   /\ UNCHANGED <<val, last_pub, err_since_pub>>
              ELSE ErrArm(r, res.e)
  /\ UNCHANGED <<oneshot, now, lock, handler, force_refresh, fetches, seen, gate, after_err>>

\* serve_rss_feed from the arrival of the body to its response: the rest of
\* fetch_and_filter_feed_rss runs; Ok is answered 200 with the channel and
\* nothing is stored, Err is answered 500.
TextRss(r) ==
  /\ pc[r] = "text"
  /\ handler[r] = "rss"
  /\ \/ ErrArm(r, <<"transport error">>)
     \/ \E b \in Bodies :
          LET res == rss_result(b)
          IN  IF res.ok
              THEN /\ resp' = [resp EXCEPT ![r] = Some(Response(200, RssType, res.v))]
                   /\ pc' = [pc EXCEPT ![r] = "done"]
                   /\ last_rss' = Some([timestamp |-> now])
                   /\ UNCHANGED <<val, cached_feed, last_pub, err_since_pub>>
              ELSE ErrArm(r, res.e)
  /\ UNCHANGED <<oneshot, now, lock, handler, force_refresh, fetches, seen, gate, after_err>>

\* Line 240, state.cached_feed.write().await : granted at once when the lock
\* is idle, otherwise the task queues.
AcquireWrite(r) ==
  /\ pc[r] = "write"
  /\ IF WriteFree
     THEN /\ writer' = r
          /\ pc' = [pc EXCEPT ![r] = "wrheld"]
          /\ UNCHANGED <<readers, lockq>>
     ELSE /\ lockq' = Append(lockq, r)
          /\ pc' = [pc EXCEPT ![r] = "wrwait"]
          /\ UNCHANGED <<readers, writer>>
  /\ UNCHANGED <<oneshot, now, cached_feed, handler, force_refresh, fetches, val, seen,
                 resp, gate, after_err, hist>>

\* The RwLock hands the write guard to the task at the head of the queue once
\* no guard is out.
WriteGranted(r) ==
  /\ pc[r] = "wrwait"
  /\ lockq # <<>> /\ Head(lockq) = r
  /\ writer = 0 /\ readers = {}
  /\ lockq' = Tail(lockq)
  /\ writer' = r
  /\ pc' = [pc EXCEPT ![r] = "wrheld"]
  /\ UNCHANGED <<oneshot, now, cached_feed, readers, handler, force_refresh, fetches, val,
                 seen, resp, gate, after_err, hist>>

\* Mutant of Publish: the slot is overwritten only by a document rendered
\* later than the one it holds.
PublishIfNewer(r) ==
  /\ pc[r] = "wrheld"
  /\ LET atom_content == Unwrap(val[r])
         slot == [content |-> atom_content, timestamp |-> now]
     IN  /\ cached_feed' =
              IF IsSome(cached_feed)
                   /\ Unwrap(cached_feed).content.updated > atom_content.updated
              THEN cached_feed
              ELSE Some(slot)
         /\ last_pub' = Some(slot)
         /\ resp' = [resp EXCEPT ![r] = Some(Response(200, AtomType, atom_content))]
  /\ err_since_pub' = FALSE
  /\ writer' = 0
  /\ val' = [val EXCEPT ![r] = None]
  /\ pc' = [pc EXCEPT ![r] = "done"]
  /\ UNCHANGED <<oneshot, now, readers, lockq, handler, force_refresh, fetches, seen, gate,
                 after_err, last_rss>>

\* Mutant of Publish: the slot is stamped with the time of the render.
PublishRenderTime(r) ==
  /\ pc[r] = "wrheld"
  /\ LET atom_content == Unwrap(val[r])
         slot == [content |-> atom_content, timestamp |-> atom_content.updated]
     IN  /\ cached_feed' = Some(slot)
         /\ last_pub' = Some(slot)
         /\ resp' = [resp EXCEPT ![r] = Some(Response(200, AtomType, atom_content))]
  /\ err_since_pub' = FALSE
  /\ writer' = 0
  /\ val' = [val EXCEPT ![r] = None]
  /\ pc' = [pc EXCEPT ![r] = "done"]
  /\ UNCHANGED <<oneshot, now, readers, lockq, handler, force_refresh, fetches, seen, gate,
                 after_err, last_rss>>

\* Lines 241-247 under the write guard: the slot becomes
\* Some((atom_content.clone(), Instant::now())), the request is answered 200
\* with atom_content, and the guard is dropped.
Publish(r) ==
  /\ pc[r] = "wrheld"
  /\ LET atom_content == Unwrap(val[r])
         slot == [content |-> atom_content, timestamp |-> now]
     IN  /\ cached_feed' = Some(slot)
         /\ last_pub' = Some(slot)
         /\ resp' = [resp EXCEPT ![r] = Some(Response(200, AtomType, atom_content))]
  /\ err_since_pub' = FALSE
  /\ writer' = 0
  /\ val' = [val EXCEPT ![r] = None]
  /\ pc' = [pc EXCEPT ![r] = "done"]
  /\ UNCHANGED <<oneshot, now, readers, lockq, handler, force_refresh, fetches, seen, gate,
                 after_err, last_rss>>

\* Time passes.
Tick ==
  /\ now < MaxTime
  /\ now' = now + 1
  /\ UNCHANGED <<oneshot, cached_feed, lock, pc, handler, force_refresh, fetches, val, seen,
                 resp, gate, after_err, hist>>

Next ==
  \/ \E r \in Req : serve_homepage(r)
  \/ \E r \in Req : serve_atom_feed(r)
  \/ \E r \in Req : serve_rss_feed(r)
  \/ \E r \in Req : ReadGranted(r)
  \/ \E r \in Req : CheckCache(r)
  \/ \E r \in Req : ServeCached(r)
  \/ \E r \in Req : Send(r)
  \/ \E r \in Req : TextAtom(r)
  \/ \E r \in Req : TextRss(r)
  \/ \E r \in Req : AcquireWrite(r)
  \/ \E r \in Req : WriteGranted(r)
  \/ \E r \in Req : Publish(r)
  \/ Tick

Spec == Init /\ [][Next]_vars

\* The runtime runs a task that can take its next step; the upstream GET and
\* the read of the body return, with a response or with an error; the RwLock
\* serves its queue in order.
Fairness ==
  \A r \in Req :
    /\ WF_vars(ReadGranted(r))
    /\ WF_vars(CheckCache(r))
    /\ WF_vars(ServeCached(r))
    /\ WF_vars(Send(r))
    /\ WF_vars(TextAtom(r))
    /\ WF_vars(TextRss(r))
    /\ WF_vars(AcquireWrite(r))
    /\ WF_vars(WriteGranted(r))
    /\ WF_vars(Publish(r))

FairSpec == Spec /\ Fairness

\* The server when every request is for /atom or /feed.xml.
AtomNext ==
  \/ \E r \in Req : serve_atom_feed(r)
  \/ \E r \in Req : ReadGranted(r)
  \/ \E r \in Req : CheckCache(r)
  \/ \E r \in Req : ServeCached(r)
  \/ \E r \in Req : Send(r)
  \/ \E r \in Req : TextAtom(r)
  \/ \E r \in Req : AcquireWrite(r)
  \/ \E r \in Req : WriteGranted(r)
  \/ \E r \in Req : Publish(r)
  \/ Tick

AtomFairSpec == Init /\ [][AtomNext]_vars /\ Fairness

\* ------------------------------------------------------------------ types
TypeOK ==
  /\ now \in Time
  /\ readers \subseteq Req
  /\ writer \in Req \cup {0}
  /\ pc \in [Req -> {"idle", "rdwait", "rdheld", "hit", "send", "text", "write", "wrwait",
                     "wrheld", "done"}]
  /\ handler \in [Req -> {"atom", "rss", "home"}]
  /\ fetches \in [Req -> {0, 1}]
  /\ gate \in [Req -> {"unchecked", "empty", "fresh", "stale"}]
  /\ writer # 0 => readers = {}

\* ------------------------------------------------------------------ one run
\* A single run of either pipeline (as --serve-once does for Atom, lines
\* 122-134) on an upstream body and under a filter word drawn from bounded
\* sets; the server does not run.

\* Longest title, summary or filter word.
MaxLen == 2
\* Most entries in an upstream feed.
MaxEntries == 3

Alphabet == {"A", "a", "b"}
Texts == UNION { [1..n -> Alphabet] : n \in 0..MaxLen }

\* An upstream entry.
MkEntry(id, title, summary, content) ==
  [id |-> id, title |-> title, summary |-> summary, content |-> content,
   links |-> <<>>, authors |-> <<>>, updated |-> 0]

\* An upstream feed as a response body.
MkBody(id, links, entries) ==
  [wf |-> TRUE, feed |-> [id |-> id, links |-> links, authors |-> <<>>, entries |-> entries]]

\* One entry with every title and summary, under every filter word.
FilterCases ==
  { [word |-> w, body |-> MkBody("urn:feed", <<>>, <<MkEntry("e1", t, sm, None)>>)] :
      w \in Texts, t \in Texts, sm \in {None} \cup { Some(x) : x \in Texts } }

\* Feeds of up to MaxEntries entries, some retained and some not, ids repeating.
OrderEntries ==
  { MkEntry(id, t, None, None) : id \in {"e1", "e2"}, t \in {<<"a">>, <<"b">>} }
OrderCases ==
  { [word |-> <<"a">>, body |-> MkBody("urn:feed", <<>>, es)] :
      es \in UNION { [1..n -> OrderEntries] : n \in 0..MaxEntries } }

\* A retained entry with every shape of summary and content.
DescCases ==
  { [word |-> <<"a">>, body |-> MkBody("urn:feed", <<>>, <<MkEntry("e1", <<"a">>, sm, c)>>)] :
      sm \in {None, Some(<<>>), Some(<<"b">>)},
      c \in {None, Some([value |-> None]), Some([value |-> Some(<<"A", "b">>)])} }

\* Feeds whose id is empty, with and without a link, and a body that is not
\* Atom.
IdCases ==
  { [word |-> <<"a">>, body |-> MkBody("", ls, <<MkEntry("e1", <<"a">>, None, None)>>)] :
      ls \in {<<>>, <<"http://up">>} }
  \cup { [word |-> <<"a">>, body |-> [wf |-> FALSE]] }

PipelineInit ==
  /\ ServerInit
  /\ p_in \in FilterCases \cup OrderCases \cup DescCases \cup IdCases
  /\ p_out = None

\* fetch_and_filter_feed from the body on (lines 300-343).
RunAtom ==
  /\ p_out = None
  /\ \E res \in atom_results_on(p_in.body, now, p_in.word) :
       p_out' = Some([pipeline |-> "atom", res |-> res])
  /\ UNCHANGED <<p_in, now, cached_feed, lock, pc, handler, force_refresh, fetches,
                 val, seen, resp, gate, after_err, hist>>

\* fetch_and_filter_feed_rss from the body on (lines 360-443).
RunRss ==
  /\ p_out = None
  /\ p_out' = Some([pipeline |-> "rss", res |-> rss_result_on(p_in.body, p_in.word)])
  /\ UNCHANGED <<p_in, now, cached_feed, lock, pc, handler, force_refresh, fetches,
                 val, seen, resp, gate, after_err, hist>>

PipelineNext == RunAtom \/ RunRss

PipelineSpec == PipelineInit /\ [][PipelineNext]_vars

\* ------------------------------------------------------------------ claims
Done(r) == pc[r] = "done"
Status(r) == Unwrap(resp[r]).status
Body(r) == Unwrap(resp[r]).body
\* Task r takes a step of its handler.
Moves(r) == pc'[r] # pc[r]
\* Positions after the upstream GET has been issued.
Fetched == {"text", "write", "wrwait", "wrheld", "done"}
\* Positions inside fetch_and_filter_feed / fetch_and_filter_feed_rss.
InPipeline == {"send", "text"}

\* C1: an unforced /atom request that finds the slot populated with age <
\* cache_duration is answered 200 with exactly the cached document, issues no
\* upstream GET, and leaves the slot (document and timestamp) unchanged.
C1_HitState ==
  \A r \in Req :
    (handler[r] = "atom" /\ ~force_refresh[r] /\ gate[r] = "fresh") =>
      /\ pc[r] \in {"hit", "done"}
      /\ fetches[r] = 0
      /\ Done(r) => Status(r) = 200 /\ Unwrap(resp[r]).content_type = AtomType
C1_HitStep ==
  \A r \in Req :
    /\ (pc[r] = "rdheld" /\ Moves(r) /\ SlotState(cached_feed) = "fresh") =>
         /\ pc'[r] = "hit"
         /\ cached_feed' = cached_feed
    /\ (pc[r] = "hit" /\ Moves(r)) =>
         /\ Done(r)'
         /\ Body(r)' = Unwrap(cached_feed).content
         /\ cached_feed' = cached_feed
         /\ fetches'[r] = 0
C1_CacheHit == []C1_HitState /\ [][C1_HitStep]_vars
C1_Witness ==
  \E r \in Req :
    /\ handler[r] = "atom" /\ ~force_refresh[r] /\ gate[r] = "fresh" /\ Done(r)
    /\ Status(r) = 200 /\ fetches[r] = 0
    /\ IsSome(cached_feed) /\ Body(r) = Unwrap(cached_feed).content

\* C2: an unforced /atom request that finds the slot Empty or of age >=
\* cache_duration issues exactly one upstream GET of its own, also while other
\* requests are refreshing, and on success replaces the slot with its own new
\* document and the publication time.
C2_MissState ==
  \A r \in Req :
    (handler[r] = "atom" /\ ~force_refresh[r] /\ gate[r] \in {"empty", "stale"}) =>
      /\ r \notin readers
      /\ pc[r] \in {"send"} \cup Fetched
      /\ fetches[r] = IF pc[r] = "send" THEN 0 ELSE 1
C2_MissStep ==
  \A r \in Req :
    /\ (pc[r] = "rdheld" /\ Moves(r) /\ SlotState(cached_feed) # "fresh") =>
         pc'[r] = "send" /\ gate'[r] \in {"empty", "stale"}
    /\ (pc[r] = "wrheld" /\ Moves(r)) =>
         /\ cached_feed' = Some([content |-> Unwrap(val[r]), timestamp |-> now])
         /\ Done(r)' /\ Status(r)' = 200 /\ Body(r)' = Unwrap(val[r])
C2_CacheMiss == []C2_MissState /\ [][C2_MissStep]_vars
C2_Witness ==
  \E r, q \in Req :
    /\ r # q
    /\ handler[r] = "atom" /\ ~force_refresh[r] /\ gate[r] = "stale"
    /\ handler[q] = "atom" /\ ~force_refresh[q] /\ gate[q] = "stale"
    /\ fetches[q] = 1 /\ pc[q] = "text"
    /\ fetches[r] = 1 /\ Done(r) /\ Status(r) = 200
    /\ cached_feed = Some([content |-> Body(r), timestamp |-> now])

\* C3: a request carrying the refresh parameter never consults the cache and
\* issues a new upstream GET whatever the age of the slot.
C3_ForcedRefresh ==
  \A r \in Req :
    (force_refresh[r] /\ handler[r] \in {"atom", "rss"}) =>
      /\ r \notin readers
      /\ pc[r] \in {"send"} \cup Fetched
      /\ fetches[r] = IF pc[r] = "send" THEN 0 ELSE 1
C3_Witness ==
  \E r \in Req :
    /\ handler[r] = "atom" /\ force_refresh[r] /\ gate[r] = "fresh"
    /\ Done(r) /\ Status(r) = 200 /\ fetches[r] = 1
    /\ cached_feed = Some([content |-> Body(r), timestamp |-> now])

\* C4 as stated: an unforced /rss request made less than cache_duration after
\* a successful /rss request is served without a new upstream GET.
C4_RssServedFromCache ==
  \A r \in Req :
    (handler[r] = "rss" /\ ~force_refresh[r] /\ gate[r] = "fresh") => fetches[r] = 0

\* C4 (amended): the cache gate is kept for the Atom output only.  An /rss
\* request never takes the cache lock and leaves the slot unchanged, and an
\* unforced /rss request made less than cache_duration after a successful one
\* issues its own upstream GET and is answered with its own rendering.
C4_RssState ==
  \A r \in Req :
    handler[r] = "rss" =>
      /\ r \notin readers /\ writer # r
      /\ pc[r] \in {"send", "text", "done"}
      /\ fetches[r] = IF pc[r] = "send" THEN 0 ELSE 1
      /\ (Done(r) /\ Status(r) = 200) => Body(r).kind = "rss"
C4_RssStep ==
  \A r \in Req :
    (handler[r] = "rss" /\ pc[r] \in InPipeline /\ Moves(r)) =>
      cached_feed' = cached_feed
C4_RssNotCached == []C4_RssState /\ [][C4_RssStep]_vars
C4_Witness ==
  \E r \in Req :
    /\ handler[r] = "rss" /\ ~force_refresh[r] /\ gate[r] = "fresh"
    /\ Done(r) /\ Status(r) = 200 /\ fetches[r] = 1
    /\ cached_feed = None

\* Task r's pipeline run ends in an error at this step: the Atom pipeline
\* leaves directly for "done" (its Ok arm goes through the write lock), the
\* RSS pipeline answers 500.
Fails(r) ==
  /\ pc[r] \in InPipeline /\ pc'[r] = "done"
  /\ handler[r] = "rss" => Status(r)' = 500

\* C5: a failed pipeline run leaves the slot exactly as it was, Empty or
\* Populated with the same document and timestamp; the slot changes only in
\* the step in which a successful run publishes.
C5_FailStep ==
  /\ \A r \in Req : Fails(r) => cached_feed' = cached_feed
  /\ cached_feed' # cached_feed =>
       \E r \in Req : pc[r] = "wrheld" /\ Done(r)' /\ Status(r)' = 200
C5_FailState ==
  \A r \in Req : (Done(r) /\ Status(r) = 500) => (r \notin readers /\ writer # r)
C5_FailureKeepsSlot == []C5_FailState /\ [][C5_FailStep]_vars
C5_Witness ==
  \E r \in Req :
    /\ handler[r] = "atom" /\ ~force_refresh[r] /\ gate[r] = "stale"
    /\ Done(r) /\ Status(r) = 500
    /\ IsSome(cached_feed) /\ Unwrap(cached_feed).timestamp < now

\* C6: after a forced /atom refresh has failed, the slot still holds the last
\* published document, and an unforced /atom request that then checks it
\* within the validity window is answered 200 with that document without an
\* upstream GET.
C6_AfterErrState ==
  /\ err_since_pub => (IsSome(cached_feed) /\ cached_feed = last_pub)
  /\ \A r \in Req :
       (after_err[r] /\ gate[r] = "fresh") =>
         /\ fetches[r] = 0
         /\ pc[r] \in {"hit", "done"}
         /\ Done(r) => (Status(r) = 200 /\ Body(r).kind = "atom")
C6_AfterErrStep ==
  \A r \in Req :
    /\ (err_since_pub /\ pc[r] = "rdheld" /\ Moves(r)
          /\ SlotState(last_pub) = "fresh") => pc'[r] = "hit"
    /\ (after_err[r] /\ pc[r] = "hit" /\ Moves(r)) =>
         /\ Status(r)' = 200
         /\ Body(r)' = Unwrap(last_pub).content
C6_FailureIsolation == []C6_AfterErrState /\ [][C6_AfterErrStep]_vars
C6_Witness ==
  \E r, f \in Req :
    /\ handler[f] = "atom" /\ force_refresh[f] /\ gate[f] = "fresh"
    /\ Done(f) /\ Status(f) = 500
    /\ handler[r] = "atom" /\ ~force_refresh[r] /\ after_err[r] /\ gate[r] = "fresh"
    /\ Done(r) /\ Status(r) = 200 /\ fetches[r] = 0
    /\ err_since_pub /\ Body(r) = Unwrap(last_pub).content

\* C7: a request whose own pipeline run fails is answered 500 with the error
\* text, never with the cached document, and no other request is affected.
C7_ErrStep ==
  \A r \in Req :
    Fails(r) =>
      /\ Status(r)' = 500
      /\ Body(r)'.kind = "error"
      /\ IsSome(cached_feed) => Body(r)' # Unwrap(cached_feed).content
      /\ \A q \in Req \ {r} : pc'[q] = pc[q] /\ resp'[q] = resp[q]
C7_ErrState ==
  \A r \in Req :
    (Done(r) /\ handler[r] # "home") =>
      \/ Status(r) = 200 /\ Body(r).kind \in {"atom", "rss"}
      \/ Status(r) = 500 /\ Body(r).kind = "error" /\ fetches[r] = 1
C7_FailureAnswered500 == []C7_ErrState /\ [][C7_ErrStep]_vars
C7_Witness ==
  \E r, q \in Req :
    /\ handler[r] = "atom" /\ force_refresh[r] /\ gate[r] = "fresh"
    /\ Done(r) /\ Status(r) = 500 /\ Body(r).kind = "error"
    /\ IsSome(cached_feed)
    /\ q # r /\ handler[q] = "atom" /\ Done(q) /\ Status(q) = 200

\* The documents a completed run of fetch_and_filter_feed can return.
CompleteDocs ==
  { res.v : res \in { x \in UNION { atom_results(b, t) : b \in Bodies, t \in Time } : x.ok } }

\* C8: a Populated slot is the (document, timestamp) pair one completed run
\* wrote in one step, and a reader holding the read guard sees the document
\* whose timestamp it checked.
C8_NoTornSlot ==
  /\ writer # 0 => readers = {}
  /\ cached_feed = last_pub
  /\ IsSome(cached_feed) =>
       /\ Unwrap(cached_feed).content \in CompleteDocs
       /\ Unwrap(cached_feed).content.updated <= Unwrap(cached_feed).timestamp
  /\ \A r \in Req :
       pc[r] = "hit" =>
         /\ r \in readers
         /\ IsSome(cached_feed)
         /\ seen[r] = Some(Unwrap(cached_feed).timestamp)
C8_Witness ==
  \E r, q \in Req :
    /\ pc[r] = "hit" /\ pc[q] = "wrwait"
    /\ Unwrap(val[q]) # Unwrap(cached_feed).content
    /\ Unwrap(cached_feed).timestamp < now

\* C9: no task holds or waits for the cache lock while its pipeline is in
\* progress; a read requested while no writer holds or waits is granted at
\* once, whatever other tasks are refreshing or reading.
C9_PipelineState ==
  /\ \A r \in Req :
       pc[r] \in InPipeline \cup {"write"} =>
         /\ r \notin readers
         /\ writer # r
         /\ \A i \in 1..Len(lockq) : lockq[i] # r
  /\ (\A r \in Req : pc[r] \in InPipeline \cup {"write", "idle", "done"}) =>
       (readers = {} /\ writer = 0 /\ lockq = <<>>)
C9_ReadStep ==
  \A r \in Req :
    (Free(r) /\ pc'[r] \in {"rdheld", "rdwait"} /\ writer = 0 /\ lockq = <<>>) =>
      (pc'[r] = "rdheld" /\ readers' = readers \cup {r})
C9_NoLockDuringFetch == []C9_PipelineState /\ [][C9_ReadStep]_vars
C9_Witness ==
  \E r, q \in Req :
    /\ r # q
    /\ pc[q] = "text" /\ fetches[q] = 1
    /\ pc[r] = "hit" /\ r \in readers /\ gate[r] = "fresh"

\* C10: the slot holds the document of the run that published last, whatever
\* the order in which the runs fetched or rendered, and a cache hit is served
\* that document.
C10_PubState ==
  IsSome(last_pub) =>
    (IsSome(cached_feed) /\ Unwrap(cached_feed).content = Unwrap(last_pub).content)
C10_PubStep ==
  /\ \A r \in Req :
       (pc[r] = "wrheld" /\ Moves(r)) =>
         (IsSome(cached_feed') /\ Unwrap(cached_feed').content = Unwrap(val[r]))
  /\ \A r \in Req :
       (pc[r] = "hit" /\ Moves(r)) => Body(r)' = Unwrap(last_pub).content
C10_LastWriterWins == []C10_PubState /\ [][C10_PubStep]_vars
C10_Witness ==
  \E r, q \in Req :
    /\ r # q
    /\ handler[r] = "atom" /\ Done(r) /\ Status(r) = 200 /\ fetches[r] = 1
    /\ handler[q] = "atom" /\ Done(q) /\ Status(q) = 200 /\ fetches[q] = 1
    /\ Body(r).updated < Body(q).updated
    /\ Unwrap(cached_feed).content = Body(r)

\* ------------------------------------------------------------------ pipeline claims
\* pat occurs in s: s is some prefix, then pat, then some suffix.
Substring(pat, s) ==
  \E i \in 0..Len(s) : \E j \in i..Len(s) : SubSeq(s, i + 1, j) = pat

\* The filter rule as stated: the lower-cased title or the lower-cased
\* summary, empty when absent, contains the lower-cased keyword.
Retained(entry, word) ==
  LET summary == IF entry.summary = None THEN <<>> ELSE entry.summary[1]
  IN  \/ Substring(to_lowercase(word), to_lowercase(entry.title))
      \/ Substring(to_lowercase(word), to_lowercase(summary))

\* The retained entries of a list, front to back.
RECURSIVE Kept(_, _)
Kept(entries, word) ==
  IF entries = <<>> THEN <<>>
  ELSE (IF Retained(Head(entries), word) THEN <<Head(entries)>> ELSE <<>>)
         \o Kept(Tail(entries), word)

\* The run has ended, on a body that parses; its pipeline, result and input.
Ran(pipeline) == IsSome(p_out) /\ Unwrap(p_out).pipeline = pipeline /\ p_in.body.wf
RanOk(pipeline) == Ran(pipeline) /\ Unwrap(p_out).res.ok
Rendered == Unwrap(p_out).res.v
Upstream == p_in.body.feed

\* C11: for every entry and every keyword, the entry is in the output iff its
\* lower-cased title or lower-cased summary (empty when absent) contains the
\* lower-cased keyword; the Atom and the RSS pipeline apply the same rule, and
\* the filter raises no error, whether or not the entry has a summary.
C11_FilterRule ==
  /\ RanOk("atom") =>
       \A i \in 1..Len(Upstream.entries) :
         Retained(Upstream.entries[i], p_in.word) <=>
           (\E k \in 1..Len(Rendered.entries) : Rendered.entries[k] = Upstream.entries[i])
  /\ RanOk("rss") =>
       \A i \in 1..Len(Upstream.entries) :
         Retained(Upstream.entries[i], p_in.word) <=>
           (\E k \in 1..Len(Rendered.items) :
              /\ Rendered.items[k].guid = Some([value |-> Upstream.entries[i].id,
                                                permalink |-> FALSE])
              /\ Rendered.items[k].title = Some(Upstream.entries[i].title))
  /\ Ran("rss") => Unwrap(p_out).res.ok
  /\ (Ran("atom") /\ ~Unwrap(p_out).res.ok) => Unwrap(p_out).res.e = <<"render error">>
C11_Witness ==
  /\ RanOk("atom")
  /\ p_in.word # to_lowercase(p_in.word)
  /\ Len(Upstream.entries) = 1
  /\ Upstream.entries[1].summary = None
  /\ Upstream.entries[1].title # to_lowercase(Upstream.entries[1].title)
  /\ Rendered.entries = Upstream.entries

\* C12: the entries of the Atom output and the items of the RSS output are
\* exactly the retained upstream entries, each once and in upstream order.
C12_StableFilter ==
  LET kept == Kept(Upstream.entries, p_in.word)
  IN  /\ RanOk("atom") => Rendered.entries = kept
      /\ RanOk("rss") =>
           /\ Len(Rendered.items) = Len(kept)
           /\ \A i \in 1..Len(kept) :
                /\ Rendered.items[i].guid = Some([value |-> kept[i].id, permalink |-> FALSE])
                /\ Rendered.items[i].title = Some(kept[i].title)
C12_Witness ==
  /\ RanOk("atom")
  /\ Len(Upstream.entries) = 3
  /\ Retained(Upstream.entries[1], p_in.word)
  /\ ~Retained(Upstream.entries[2], p_in.word)
  /\ Retained(Upstream.entries[3], p_in.word)
  /\ Upstream.entries[1].id # Upstream.entries[3].id
  /\ Rendered.entries = <<Upstream.entries[1], Upstream.entries[3]>>

\* C13: the description of the RSS item of a retained entry is the summary
\* when there is one, else the content text when there is one, else empty;
\* an entry with neither is rendered and the run does not fail.
C13_DescriptionFallback ==
  Ran("rss") =>
    LET kept == Kept(Upstream.entries, p_in.word)
    IN  /\ Unwrap(p_out).res.ok
        /\ Len(Rendered.items) = Len(kept)
        /\ \A i \in 1..Len(kept) :
             Rendered.items[i].description =
               Some(IF kept[i].summary # None THEN kept[i].summary[1]
                    ELSE IF kept[i].content # None /\ kept[i].content[1].value # None
                    THEN kept[i].content[1].value[1]
                    ELSE <<>>)
C13_Witness ==
  /\ RanOk("rss")
  /\ Len(Rendered.items) = 1
  /\ Upstream.entries[1].summary = None
  /\ Upstream.entries[1].content = Some([value |-> Some(<<"A", "b">>)])
  /\ Rendered.items[1].description = Some(<<"A", "b">>)

\* C15: an Atom run on a feed whose id is empty ends in an error and produces
\* no document.
C15_NoDocumentWithoutId ==
  (Ran("atom") /\ Upstream.id = "") => ~Unwrap(p_out).res.ok

\* ------------------------------------------------------------------ server claims
\* The errors with which the fetch can end: no response, or a response whose
\* status is not a success.
FetchErrors ==
  {<<"transport error">>}
    \cup { <<"HTTP error: ", code>> : code \in { c \in UpstreamStatuses : ~is_success(c) } }

\* C14: a pipeline run issues exactly one upstream GET; when the GET fails or
\* is answered with a non-success status the run ends at once: the request is
\* answered 500 with that error, and there is no second GET, no parse, no
\* render and no publication.
C14_OneGet ==
  \A r \in Req :
    /\ fetches[r] <= 1
    /\ pc[r] = "send" => fetches[r] = 0
    /\ pc[r] \in {"text", "write", "wrwait", "wrheld"} => fetches[r] = 1
C14_SendStep ==
  \A r \in Req :
    (pc[r] = "send" /\ fetches'[r] # fetches[r]) =>
      /\ fetches'[r] = 1
      /\ \/ pc'[r] = "text" /\ resp'[r] = None
         \/ /\ Done(r)' /\ Status(r)' = 500
            /\ Body(r)'.kind = "error" /\ Body(r)'.text[2] \in FetchErrors
            /\ val'[r] = None
            /\ cached_feed' = cached_feed /\ last_pub' = last_pub /\ lock' = lock
C14_FailFast == []C14_OneGet /\ [][C14_SendStep]_vars
C14_Witness ==
  \E r \in Req :
    /\ handler[r] = "atom" /\ force_refresh[r] /\ Done(r) /\ Status(r) = 500
    /\ Body(r).text[2] = <<"HTTP error: ", 503>>
    /\ fetches[r] = 1
    /\ IsSome(cached_feed) /\ writer = 0

\* C16: within a request the pipeline steps follow one another: GET, then
\* parse, filter and render of the body, then publication.  The slot is written
\* only with a document whose render has completed, and the refreshing
\* request is answered with the document it published.
C16_Rendered ==
  \A r \in Req :
    /\ pc[r] \in {"send", "text"} => val[r] = None
    /\ pc[r] \in {"write", "wrwait", "wrheld"} =>
         /\ handler[r] = "atom" /\ fetches[r] = 1
         /\ IsSome(val[r]) /\ Unwrap(val[r]) \in CompleteDocs
         /\ Unwrap(val[r]).updated <= now
C16_Order ==
  /\ \A r \in Req :
       (handler[r] = "atom" /\ Moves(r)) =>
         /\ pc[r] = "send" => pc'[r] \in {"text", "done"}
         /\ pc[r] = "text" => pc'[r] \in {"write", "done"}
         /\ pc[r] = "write" => pc'[r] \in {"wrwait", "wrheld"}
         /\ pc[r] = "wrwait" => pc'[r] = "wrheld"
         /\ pc[r] = "wrheld" => pc'[r] = "done"
         /\ pc'[r] \in {"wrwait", "wrheld"} => (val'[r] = val[r] /\ cached_feed' = cached_feed)
  /\ cached_feed' # cached_feed =>
       \E r \in Req :
         /\ pc[r] = "wrheld" /\ Done(r)'
         /\ Unwrap(cached_feed').content = Unwrap(val[r])
         /\ Status(r)' = 200 /\ Body(r)' = Unwrap(cached_feed').content
C16_Sequential == []C16_Rendered /\ [][C16_Order]_vars
C16_Witness ==
  \E r \in Req :
    /\ handler[r] = "atom" /\ Done(r) /\ Status(r) = 200 /\ fetches[r] = 1
    /\ gate[r] = "stale"
    /\ Body(r) \in CompleteDocs /\ Body(r).entries = <<Entry1, Entry3>>
    /\ cached_feed = Some([content |-> Body(r), timestamp |-> now])

\* C17: the slot is Empty at the start, is populated only by a run that ended
\* with a document, and once populated is never Empty again, whatever the
\* requests that follow.
C17_Step ==
  /\ IsSome(cached_feed) => IsSome(cached_feed')
  /\ (cached_feed = None /\ IsSome(cached_feed')) =>
       \E r \in Req :
         /\ handler[r] = "atom" /\ pc[r] = "wrheld" /\ fetches[r] = 1
         /\ Unwrap(val[r]) \in CompleteDocs
         /\ Unwrap(cached_feed').content = Unwrap(val[r])
         /\ Done(r)' /\ Status(r)' = 200
C17_SlotLifecycle == cached_feed = None /\ [][C17_Step]_vars
C17_Witness ==
  \E r, q \in Req :
    /\ r # q
    /\ IsSome(cached_feed)
    /\ handler[r] = "atom" /\ force_refresh[r] /\ gate[r] # "empty"
    /\ Done(r) /\ Status(r) = 500
    /\ handler[q] = "atom" /\ ~force_refresh[q] /\ gate[q] = "stale"
    /\ Done(q) /\ Status(q) = 500

\* C18: the timestamp of the slot is the time of the publication, read under
\* the write guard: from one publication to the next it never decreases, and
\* it is never earlier than the end of the run that produced the document.
C18_Stamp ==
  IsSome(cached_feed) =>
    /\ Unwrap(cached_feed).timestamp <= now
    /\ Unwrap(cached_feed).timestamp >= Unwrap(cached_feed).content.updated
C18_PublishStep ==
  cached_feed' # cached_feed =>
    /\ writer # 0 /\ pc[writer] = "wrheld" /\ readers = {}
    /\ Unwrap(cached_feed').timestamp = now
    /\ IsSome(cached_feed) => Unwrap(cached_feed').timestamp >= Unwrap(cached_feed).timestamp
C18_Timestamps == []C18_Stamp /\ [][C18_PublishStep]_vars
C18_Witness ==
  \E r \in Req :
    /\ handler[r] = "atom" /\ Done(r) /\ Status(r) = 200 /\ fetches[r] = 1
    /\ IsSome(cached_feed) /\ Unwrap(cached_feed).content # Body(r)
    /\ Unwrap(cached_feed).content.updated < Body(r).updated
    /\ Unwrap(cached_feed).timestamp > Body(r).updated

\* C19: only the Atom handler takes the lock or writes the slot; requests for
\* /rss, /rss.xml and / leave both as they are, so the slot holds an Atom
\* rendering or nothing and a cache hit is answered with an Atom document.
C19_AtomOnly ==
  /\ IsSome(cached_feed) => Unwrap(cached_feed).content.kind = "atom"
  /\ \A r \in Req :
       /\ handler[r] \in {"rss", "home"} =>
            /\ pc[r] \in {"idle", "send", "text", "done"}
            /\ r \notin readers /\ writer # r
            /\ \A i \in 1..Len(lockq) : lockq[i] # r
       /\ (handler[r] = "atom" /\ Done(r) /\ Status(r) = 200) =>
            (Body(r).kind = "atom" /\ Unwrap(resp[r]).content_type = AtomType)
C19_OtherStep ==
  (cached_feed' # cached_feed \/ lock' # lock) =>
    \E r \in Req : handler'[r] = "atom" /\ Moves(r)
C19_SlotIsAtom == []C19_AtomOnly /\ [][C19_OtherStep]_vars
C19_Witness ==
  \E r, q \in Req :
    /\ handler[r] = "rss" /\ Done(r) /\ Status(r) = 200 /\ Body(r).kind = "rss"
    /\ gate[r] = "fresh"
    /\ handler[q] = "atom" /\ gate[q] = "fresh" /\ Done(q) /\ fetches[q] = 0
    /\ Body(q) = Unwrap(cached_feed).content /\ Body(q).kind = "atom"

\* C20: when every upstream fetch returns and the lock is granted in turn,
\* every request is answered, once, with 200 or 500; no task asks for or waits
\* for the write lock while it holds its read guard, and the tasks never all
\* wait for one another.
C20_NoUpgrade ==
  \A r \in Req :
    /\ pc[r] \in {"send", "text", "write", "wrwait", "wrheld"} => r \notin readers
    /\ pc[r] \in {"rdwait", "wrwait"} <=> (\E i \in 1..Len(lockq) : lockq[i] = r)
    /\ pc[r] \in {"rdheld", "hit"} <=> r \in readers
    /\ pc[r] = "wrheld" <=> writer = r
    /\ pc[r] \notin {"idle", "done"} <=> (pc[r] # "idle" /\ resp[r] = None)
    /\ Done(r) => Status(r) \in {200, 500}
C20_OneResponse ==
  \A r \in Req :
    \* a response is not replaced: the slot changes when the next request
    \* of the task begins
    /\ (IsSome(resp[r]) /\ resp'[r] # resp[r]) =>
         (Done(r) /\ (resp'[r] = None \/ handler'[r] = "home"))
    /\ (resp[r] = None /\ IsSome(resp'[r])) => Done(r)'
C20_Answered ==
  \A r \in Req : (pc[r] \notin {"idle", "done"}) ~> Done(r)
C20_EveryRequestAnswered ==
  /\ []C20_NoUpgrade
  /\ [][C20_OneResponse]_vars
  /\ C20_Answered
C20_Witness ==
  \E r, q \in Req :
    /\ r # q
    /\ handler[r] = "atom" /\ pc[r] = "wrwait"
    /\ handler[q] = "atom" /\ pc[q] = "hit" /\ q \in readers
    /\ lockq = <<r>>

====
